---------------------------- MODULE Spec2Model ----------------------------
(***************************************************************************)
(* A model of jeopardy.js: the global board `categories`, the started      *)
(* flag, the table#jeopardy DOM, the loading spinner, the start button,    *)
(* and the asynchronous runs of setupAndStart.                             *)
(*                                                                         *)
(* JavaScript runs one task at a time.  The code between two awaits of a   *)
(* network request runs without interruption (promise continuations are    *)
(* microtasks, drained before the next event), so an action is: one event  *)
(* (a click on #start, a click on a td, the completion of one request)     *)
(* together with everything the code does until it next waits for the      *)
(* network or returns.                                                     *)
(*                                                                         *)
(* Array indices and cell ids are 0-based as in the code; a TLA+ sequence  *)
(* is 1-based, so categories[c] of the code is categories[c + 1] here.     *)
(***************************************************************************)
EXTENDS Integers, Sequences, FiniteSets, TLC

VARIABLES
    categories,   \* line 21: the global array of categories
    fetchedBy,    \* history: for each element of categories, the run that pushed it
    gameStarted,  \* line 24
    thead,        \* rows of $("#jeopardy thead"), each a sequence of <th> texts
    tbody,        \* rows of $("#jeopardy tbody"), each a sequence of <td> cells
    spinner,      \* TRUE when $("#spin-container") is shown
    startText,    \* the text of $("#start")
    runs,         \* the calls of setupAndStart, in the order of their triggers
    clicks,       \* history: number of clicks on cells so far
    renders,      \* history: calls of renderCategories that returned since
                  \* the table was last emptied by showLoadingView
    lastDone      \* history: the run that returned last, as it stood then

vars == <<categories, fetchedBy, gameStarted, thead, tbody, spinner, startText,
          runs, clicks, renders, lastDone>>

-----------------------------------------------------------------------------
(* Program constants *)

NUM_CATEGORIES == 6

NUM_QUESTIONS_PER_CAT == 5

(* Bounds of the model *)

\* number of clicks on #start
MaxRuns == 2

\* number of clicks on cells of the table, in games that overlap
MaxClicks == 1

\* number of clicks on cells of the table, in games played one after another
MaxGameClicks == 3

\* number of calls of renderCategories on one board, and the length of the
\* boards, when renderCategories is exercised alone
MaxRenders == 2

MaxBoard == 2

-----------------------------------------------------------------------------
(* The remote service *)

\* The category-detail endpoint answers a request for `id` with a title and
\* a clue list.  Categories 1, 4, 7 have one clue more than
\* NUM_QUESTIONS_PER_CAT, categories 2, 5 exactly that many, categories
\* 3, 6 one fewer.
ClueCount(id) ==
    CASE id % 3 = 1 -> NUM_QUESTIONS_PER_CAT + 1
      [] id % 3 = 2 -> NUM_QUESTIONS_PER_CAT
      [] OTHER      -> NUM_QUESTIONS_PER_CAT - 1

\* the value of a title property that the response does not have
NoTitle == "<undefined>"

\* Category 0 stands for a record without a title; the code checks no
\* property of the response (line 57).
TitleOf(id) ==
    CASE id = 0     -> NoTitle
      [] id % 3 = 1 -> "math"
      [] id % 3 = 2 -> "Us History"
      [] OTHER      -> "ART"

\* response.data of the category-detail endpoint (line 56-57); the k-th clue
\* of category id has question <<"Q", id, k>> and answer <<"A", id, k>>.
CategoryData(id) ==
    [id    |-> id,
     title |-> TitleOf(id),
     clues |-> [k \in 1..ClueCount(id) |->
                  [question |-> <<"Q", id, k>>, answer |-> <<"A", id, k>>]]]

\* Pools the category-list endpoint answers with in a game (each a sequence
\* of record ids, response.data.map(category => category.id), line 34).
Pools == { <<2>>, <<1, 3>> }

\* The pool of a game whose start button is clicked twice in a row: four
\* records, two categories listed twice
RestartPools == { <<1, 2, 1, 2>> }

\* Pools of a game that meets every shape of record: without a title, with
\* NUM_QUESTIONS_PER_CAT clues, with fewer
ShapePools == { <<0>>, <<2, 0>>, <<3, 2>> }

\* Pools for getCategoriesIds alone: fewer records than NUM_CATEGORIES,
\* repeated identifiers, exactly NUM_CATEGORIES records, and more
SamplePools ==
    { <<5>>, <<1, 2, 3>>, <<1, 1, 2, 2, 3, 3>>, <<1, 2, 3, 4, 5, 6>>,
      <<1, 2, 3, 4, 5, 6, 7>> }

-----------------------------------------------------------------------------
(* Library functions *)

Min(a, b) == IF a < b THEN a ELSE b

\* String.prototype.toUpperCase on the titles of the service (line 88)
toUpperCase(s) ==
    CASE s = "math"       -> "MATH"
      [] s = "Us History" -> "US HISTORY"
      [] OTHER            -> s

\* Array.prototype.slice(0, n) (line 58)
slice0(arr, n) == SubSeq(arr, 1, Min(n, Len(arr)))

\* All ways to pick m positions of P in order without repetition.
RECURSIVE Arrangements(_, _)
Arrangements(P, m) ==
    IF m = 0 THEN { <<>> }
    ELSE UNION { { <<p>> \o t : t \in Arrangements(P \ {p}, m - 1) } : p \in P }

\* a sampler that draws each element independently, with replacement
MutSampleSize_WithReplacement(array, n) ==
    LET m == Min(n, Len(array))
    IN  { [k \in 1..m |-> array[pos[k]]] : pos \in [1..m -> 1..Len(array)] }

\* _.sampleSize(array, n) (line 35): n clamped to the array's length, then
\* the first n elements of a partial Fisher-Yates shuffle of a copy: the
\* elements at n distinct positions, in any order.  The result is random;
\* this is the set of possible results.
sampleSize(array, n) ==
    LET m == Min(n, Len(array))
    IN  { [k \in 1..m |-> array[pos[k]]] :
            pos \in Arrangements(1..Len(array), m) }

-----------------------------------------------------------------------------
(* getCategoriesIds, lines 31-40 *)

\* the possible results when the request succeeds with `pool`
getCategoriesIds(pool) == sampleSize(pool, NUM_CATEGORIES)

\* the result when the request fails or response.data is not an array
getCategoriesIdsFailed == <<>>

(* getCategory, lines 54-67: the category returned for a successful request *)
getCategory(catId) ==
    LET category == CategoryData(catId)
        clues    == slice0(category.clues, NUM_QUESTIONS_PER_CAT)
    IN  [id    |-> category.id,
         title |-> category.title,
         clues |-> [k \in 1..Len(clues) |->
                      [question |-> clues[k].question,
                       answer   |-> clues[k].answer,
                       showing  |-> "null"]]]

-----------------------------------------------------------------------------
(* The DOM *)

\* the id attribute `${catIdx}-${clueIdx}` (line 96), as its three tokens
CellId(catIdx, clueIdx) == <<catIdx, "-", clueIdx>>

\* a split that yields the clue index first
MutSplitId_Swapped(id) == <<id[3], id[1]>>

\* id.split("-") (line 113)
SplitId(id) == <<id[1], id[3]>>

Mask == <<"?">>

\* an .empty() that leaves the rows in place
MutEmpty_Keep(rows) == rows

\* jQuery's .empty() on a table section (lines 82-83, 135-136): its rows
\* are removed
empty(rows) == <<>>

\* the section of a page whose table has no rows yet
EmptyTable == <<>>

\* category.title.toUpperCase() (line 88) throws a TypeError when the title
\* is undefined; nothing catches it in renderCategories or setupAndStart.
renderThrows(cats) == \E c \in 1..Len(cats) : cats[c].title = NoTitle

\* renderCategories (lines 77-100) on a table whose sections hold `head`
\* and `body`: both are emptied, then thead gets one <tr> with a <th> per
\* category and tbody NUM_QUESTIONS_PER_CAT <tr> with a <td> per category.
\* When line 88 throws, the header row was not yet appended (line 90) and
\* both sections stay empty.
renderCategories(head, body, cats) ==
    IF renderThrows(cats)
    THEN [thead |-> empty(head), tbody |-> empty(body)]
    ELSE [thead |-> empty(head) \o
                      << [c \in 1..Len(cats) |-> toUpperCase(cats[c].title)] >>,
          tbody |-> empty(body) \o
                      [clueIdx1 \in 1..NUM_QUESTIONS_PER_CAT |->
                         [c \in 1..Len(cats) |->
                            [id |-> CellId(c - 1, clueIdx1 - 1), text |-> Mask,
                             showingAnswer |-> FALSE]]]]

\* the positions <<row, column>> of the <td> cells now in the table
Cells == UNION { { <<r, c>> : c \in 1..Len(tbody[r]) } : r \in 1..Len(tbody) }

\* The row the user clicks in when games overlap: the last, which holds a
\* clue of the categories with NUM_QUESTIONS_PER_CAT clues and none of a
\* category with fewer.
ClickRows == {NUM_QUESTIONS_PER_CAT}

\* the cells the user clicks when games overlap
Clickable == { rc \in Cells : rc[1] \in ClickRows }

\* a selector that matches every cell of the category's column
MutSetCell_WholeColumn(body, id, text, mark) ==
    [r \in 1..Len(body) |->
        [c \in 1..Len(body[r]) |->
            IF body[r][c].id[1] = id[1]
            THEN [body[r][c] EXCEPT !.text = text,
                                    !.showingAnswer = @ \/ mark]
            ELSE body[r][c]]]

\* $(`#${id}`).text(text), and addClass('showing-answer') when `mark`
\* (lines 117, 120-121): the cell with that id; ids are unique in the table
\* since only renderCategories creates cells.
SetCell(body, id, text, mark) ==
    [r \in 1..Len(body) |->
        [c \in 1..Len(body[r]) |->
            IF body[r][c].id = id
            THEN [body[r][c] EXCEPT !.text = text,
                                    !.showingAnswer = @ \/ mark]
            ELSE body[r][c]]]

-----------------------------------------------------------------------------
(* The state after construction: the script has run, nothing was clicked. *)
(* The page's markup is not part of the script: the table is taken to be  *)
(* empty, the spinner may be shown or hidden, and the button's text is    *)
(* the page's own.                                                        *)

\* A run: pc is where the call of setupAndStart stands ("idle": not yet
\* called; "awaitIds": line 157; "awaitCat": line 162; "done": returned;
\* "failed": ended by an exception, its promise rejected),
\* ids is categoryIds, i the number of category requests sent.  History:
\* listOk tells whether the category-list request succeeded, pool is the
\* list of ids it answered with, ok[k] tells whether the k-th category
\* request succeeded, overlapped whether another run was in flight at any
\* time since this one was called.
IdleRun == [pc |-> "idle", listOk |-> FALSE, pool |-> <<>>, ids |-> <<>>,
            i |-> 0, ok |-> <<>>, overlapped |-> FALSE]

\* a run that has returned: its locals are gone
DoneRun == [IdleRun EXCEPT !.pc = "done"]

\* a run that an uncaught exception has ended
FailedRun == [IdleRun EXCEPT !.pc = "failed"]

Init ==
    /\ categories = <<>>
    /\ fetchedBy = <<>>
    /\ gameStarted = FALSE
    /\ thead = EmptyTable
    /\ tbody = EmptyTable
    /\ spinner \in BOOLEAN
    /\ startText = "html"
    /\ runs = [r \in 1..MaxRuns |-> IdleRun]
    /\ clicks = 0
    /\ renders = 0
    /\ lastDone = [run |-> 0, rec |-> IdleRun]

-----------------------------------------------------------------------------
(* handleClick, lines 111-124, for a click on the <td> at row r, column c *)

\* categories[catId].clues[clueId] throws a TypeError when categories[catId]
\* is undefined, and clue.showing throws when the clue is undefined
ClueExists(catId, clueId) ==
    /\ catId + 1 <= Len(categories)
    /\ clueId + 1 <= Len(categories[catId + 1].clues)

\* a handler whose first branch goes straight to the answer
MutNextShowing_Skip(showing) ==
    CASE showing = "null"     -> "answer"
      [] showing = "question" -> "answer"
      [] OTHER                -> showing

\* a handler that hides the answer again on a further click
MutNextShowing_Toggle(showing) ==
    CASE showing = "null"     -> "question"
      [] showing = "question" -> "answer"
      [] OTHER                -> "question"

\* clue.showing after the click (lines 116-123)
NextShowing(showing) ==
    CASE showing = "null"     -> "question"
      [] showing = "question" -> "answer"
      [] OTHER                -> showing

handleClick(r, c) ==
    LET id     == tbody[r][c].id
        catId  == SplitId(id)[1]
        clueId == SplitId(id)[2]
    IN  /\ clicks' = clicks + 1
        /\ IF ~ClueExists(catId, clueId)
           THEN \* TypeError: the handler ends, nothing was changed
                UNCHANGED <<categories, tbody>>
           ELSE LET clue == categories[catId + 1].clues[clueId + 1]
                IN  /\ categories' =
                          [categories EXCEPT ![catId + 1].clues[clueId + 1].showing =
                              NextShowing(clue.showing)]
                    /\ tbody' =
                          CASE clue.showing = "null" ->
                                  SetCell(tbody, id, clue.question, FALSE)
                            [] clue.showing = "question" ->
                                  SetCell(tbody, id, clue.answer, TRUE)
                            [] OTHER -> tbody
        /\ UNCHANGED <<fetchedBy, gameStarted, thead, spinner, startText, runs,
                       renders, lastDone>>

-----------------------------------------------------------------------------
(* setupAndStart, lines 154-180 *)

InFlight(r) == runs[r].pc \in {"awaitIds", "awaitCat"}

\* the effect of a click on #start that cancels the calls in flight
MutTrigger_Cancel(r) ==
    /\ runs[r].pc = "idle"
    /\ \A q \in 1..(r - 1) : runs[q].pc # "idle"
    /\ thead' = empty(thead)
    /\ tbody' = empty(tbody)
    /\ spinner' = TRUE
    /\ renders' = 0
    /\ runs' = [q \in 1..MaxRuns |->
                  IF q = r THEN [runs[r] EXCEPT !.pc = "awaitIds"]
                  ELSE IF InFlight(q) THEN DoneRun ELSE runs[q]]
    /\ UNCHANGED <<categories, fetchedBy, gameStarted, startText, clicks,
                   lastDone>>

\* The click on #start (line 183) that starts run r: showLoadingView (line
\* 155, lines 130-139), then getCategoriesIds sends its request (line 33)
\* and the run waits (line 157).
Trigger(r) ==
    /\ runs[r].pc = "idle"
    /\ \A q \in 1..(r - 1) : runs[q].pc # "idle"
    /\ thead' = empty(thead)
    /\ tbody' = empty(tbody)
    /\ spinner' = TRUE
    /\ renders' = 0
    /\ runs' = [q \in 1..MaxRuns |->
                  IF q = r
                  THEN [runs[r] EXCEPT !.pc = "awaitIds",
                                       !.overlapped = \E o \in 1..MaxRuns : InFlight(o)]
                  ELSE IF InFlight(q)
                       THEN [runs[q] EXCEPT !.overlapped = TRUE]
                       ELSE runs[q]]
    /\ UNCHANGED <<categories, fetchedBy, gameStarted, startText, clicks,
                   lastDone>>

\* a button that reads "Restart" whatever the flag
MutCaption_AlwaysRestart(flag) == "Restart"

\* the text given to the button for a value of gameStarted (lines 175-179)
Caption(flag) == IF flag THEN "Restart" ELSE "Start"

\* a loop that sends the requests for all remaining ids at once
MutLoop_AllAtOnce(r, rec, cats, by) ==
    /\ categories' = cats
    /\ fetchedBy' = by
    /\ rec.i < Len(rec.ids)
    /\ runs' = [runs EXCEPT ![r] = [rec EXCEPT !.pc = "awaitCat",
                                                !.i = Len(rec.ids)]]
    /\ UNCHANGED <<thead, tbody, spinner, gameStarted, startText, renders,
                   lastDone, clicks>>

\* Lines 161-180, from the top of the for loop, when run r (its record now
\* `rec`, the board now `cats`) has had the answers of rec.i requests: send
\* the next request (line 162, line 56) and wait, or leave the loop and
\* render (line 168), hide the spinner (line 170), flip the flag (line 173)
\* and set the button's text (lines 175-179).  When renderCategories throws,
\* the run ends there: lines 170-179 are not reached.
Loop(r, rec, cats, by) ==
    /\ categories' = cats
    /\ fetchedBy' = by
    /\ IF rec.i < Len(rec.ids)
       THEN /\ runs' = [runs EXCEPT ![r] = [rec EXCEPT !.pc = "awaitCat",
                                                        !.i = rec.i + 1]]
            /\ UNCHANGED <<thead, tbody, spinner, gameStarted, startText,
                           renders, lastDone>>
       ELSE /\ thead' = renderCategories(thead, tbody, cats).thead
            /\ tbody' = renderCategories(thead, tbody, cats).tbody
            /\ IF renderThrows(cats)
               THEN /\ runs' = [runs EXCEPT ![r] = FailedRun]
                    /\ UNCHANGED <<spinner, gameStarted, startText, renders,
                                   lastDone>>
               ELSE /\ runs' = [runs EXCEPT ![r] = DoneRun]
                    /\ renders' = renders + 1
                    /\ lastDone' = [run |-> r, rec |-> rec]
                    /\ spinner' = FALSE
                    /\ gameStarted' = ~gameStarted
                    /\ startText' = Caption(~gameStarted)
    /\ UNCHANGED clicks

\* The category-list request of run r succeeds with `pool` (lines 33-35):
\* the ids are sampled, the board is reset (line 159), the loop starts.
IdsResponse(r, pool) ==
    /\ runs[r].pc = "awaitIds"
    /\ \E ids \in getCategoriesIds(pool) :
          Loop(r, [runs[r] EXCEPT !.listOk = TRUE, !.pool = pool, !.ids = ids],
               <<>>, <<>>)

\* a getCategoriesIds without the catch: the rejection ends setupAndStart
MutIdsFailure_Propagate(r) ==
    /\ runs[r].pc = "awaitIds"
    /\ runs' = [runs EXCEPT ![r] = DoneRun]
    /\ UNCHANGED <<categories, fetchedBy, gameStarted, thead, tbody, spinner,
                   startText, clicks, renders, lastDone>>

\* The category-list request of run r fails (lines 36-39)
IdsFailure(r) ==
    /\ runs[r].pc = "awaitIds"
    /\ Loop(r, [runs[r] EXCEPT !.ids = getCategoriesIdsFailed], <<>>, <<>>)

\* The category-detail request of run r succeeds (lines 56-62): the
\* category is pushed onto the global array as it is now (lines 163-165).
CatResponse(r) ==
    /\ runs[r].pc = "awaitCat"
    /\ LET catId == runs[r].ids[runs[r].i]
       IN  Loop(r, [runs[r] EXCEPT !.ok = Append(@, TRUE)],
                Append(categories, getCategory(catId)),
                Append(fetchedBy, r))

\* a loop that stops at the first category that fails
MutCatFailure_Break(r) ==
    /\ runs[r].pc = "awaitCat"
    /\ Loop(r, [runs[r] EXCEPT !.ok = Append(@, FALSE), !.i = Len(runs[r].ids)],
            categories, fetchedBy)

\* The category-detail request of run r fails (lines 63-66): getCategory
\* returns null and the category is skipped (line 163).
CatFailure(r) ==
    /\ runs[r].pc = "awaitCat"
    /\ Loop(r, [runs[r] EXCEPT !.ok = Append(@, FALSE)], categories, fetchedBy)

-----------------------------------------------------------------------------

Next ==
    \/ \E r \in 1..MaxRuns : Trigger(r)
    \/ \E r \in 1..MaxRuns : \E pool \in Pools : IdsResponse(r, pool)
    \/ \E r \in 1..MaxRuns : IdsFailure(r)
    \/ \E r \in 1..MaxRuns : CatResponse(r)
    \/ \E r \in 1..MaxRuns : CatFailure(r)
    \/ \E rc \in Clickable : clicks < MaxClicks /\ handleClick(rc[1], rc[2])

Spec == Init /\ [][Next]_vars

-----------------------------------------------------------------------------
(* Games played one after another: the start button is clicked only when  *)
(* no run is in flight.                                                    *)

NextGame ==
    \/ \E r \in 1..MaxRuns : (\A q \in 1..MaxRuns : ~InFlight(q)) /\ Trigger(r)
    \/ \E r \in 1..MaxRuns : \E pool \in Pools : IdsResponse(r, pool)
    \/ \E r \in 1..MaxRuns : IdsFailure(r)
    \/ \E r \in 1..MaxRuns : CatResponse(r)
    \/ \E r \in 1..MaxRuns : CatFailure(r)
    \/ \E rc \in Cells : clicks < MaxGameClicks /\ handleClick(rc[1], rc[2])

SpecGame == Init /\ [][NextGame]_vars

-----------------------------------------------------------------------------
(* A game in which the start button is clicked twice and no cell is clicked *)

NextRestart ==
    \/ \E r \in 1..MaxRuns : Trigger(r)
    \/ \E r \in 1..MaxRuns : \E pool \in RestartPools : IdsResponse(r, pool)
    \/ \E r \in 1..MaxRuns : IdsFailure(r)
    \/ \E r \in 1..MaxRuns : CatResponse(r)
    \/ \E r \in 1..MaxRuns : CatFailure(r)

SpecRestart == Init /\ [][NextRestart]_vars

-----------------------------------------------------------------------------
(* A game over records of every shape, in which every request that was     *)
(* sent is answered in the end: it succeeds or it fails (axios rejects on  *)
(* a network error, an error status or a timeout).                         *)

NextShapes ==
    \/ \E r \in 1..MaxRuns : Trigger(r)
    \/ \E r \in 1..MaxRuns : \E pool \in ShapePools : IdsResponse(r, pool)
    \/ \E r \in 1..MaxRuns : IdsFailure(r)
    \/ \E r \in 1..MaxRuns : CatResponse(r)
    \/ \E r \in 1..MaxRuns : CatFailure(r)

\* the request run r waits for is answered
Answered(r) ==
    \/ \E pool \in ShapePools : IdsResponse(r, pool)
    \/ IdsFailure(r)
    \/ CatResponse(r)
    \/ CatFailure(r)

SpecShapes ==
    Init /\ [][NextShapes]_vars /\ \A r \in 1..MaxRuns : WF_vars(Answered(r))

-----------------------------------------------------------------------------
(* getCategoriesIds alone: the first run up to the end of line 157 *)

NextSample ==
    \/ Trigger(1)
    \/ \E pool \in SamplePools : IdsResponse(1, pool)
    \/ IdsFailure(1)

SpecSample == Init /\ [][NextSample]_vars

-----------------------------------------------------------------------------
(* renderCategories alone: a board is rendered, cells are clicked, and the *)
(* same board is rendered again.                                           *)

RECURSIVE SeqsUpTo(_, _)
SeqsUpTo(S, n) ==
    IF n = 0 THEN { <<>> }
    ELSE SeqsUpTo(S, n - 1) \cup
         { Append(q, x) : q \in { t \in SeqsUpTo(S, n - 1) : Len(t) = n - 1 }, x \in S }

\* the boards getCategory builds from up to MaxBoard of the categories 1, 2, 3
RenderBoards ==
    { [k \in 1..Len(ids) |-> getCategory(ids[k])] : ids \in SeqsUpTo({1, 2, 3}, MaxBoard) }

InitRender ==
    /\ categories \in RenderBoards
    /\ fetchedBy = [k \in 1..Len(categories) |-> 0]
    /\ gameStarted = FALSE
    /\ thead = EmptyTable
    /\ tbody = EmptyTable
    /\ spinner = FALSE
    /\ startText = "html"
    /\ runs = [r \in 1..MaxRuns |-> IdleRun]
    /\ clicks = 0
    /\ renders = 0
    /\ lastDone = [run |-> 0, rec |-> IdleRun]

\* renderCategories(categories) (line 168) on the table as it is
Render ==
    /\ renders < MaxRenders
    /\ thead' = renderCategories(thead, tbody, categories).thead
    /\ tbody' = renderCategories(thead, tbody, categories).tbody
    /\ renders' = renders + 1
    /\ UNCHANGED <<categories, fetchedBy, gameStarted, spinner, startText, runs,
                   clicks, lastDone>>

NextRender ==
    \/ Render
    \/ \E rc \in Clickable : clicks < MaxGameClicks /\ handleClick(rc[1], rc[2])

SpecRender == InitRender /\ [][NextRender]_vars


-----------------------------------------------------------------------------
(* Properties of handleClick *)

\* the clue of category column c (1-based), row r (1-based) exists
HasClue(c, r) == c <= Len(categories) /\ r <= Len(categories[c].clues)

\* C1: in every step, a clue that stays on the board keeps its reveal state
\* or moves Hidden -> Question or Question -> Answer: never backward, never
\* from Hidden to Answer.
C1_RevealOnlyForward ==
    [][\A c \in 1..Len(categories) : \A k \in 1..Len(categories[c].clues) :
          c <= Len(categories') =>
             LET a == categories[c].clues[k].showing
                 b == categories'[c].clues[k].showing
             IN  \/ b = a
                 \/ a = "null" /\ b = "question"
                 \/ a = "question" /\ b = "answer"]_vars

\* a clue has been clicked up to Answer
C1_Witness ==
    \E c \in 1..Len(categories) : \E k \in 1..Len(categories[c].clues) :
        categories[c].clues[k].showing = "answer"

\* C4: a click on the cell of a clue in state Answer changes no clue's state
\* and no cell of the table.
C4_AnswerClickIgnored ==
    [][clicks' # clicks => \A rc \in Cells :
          (/\ HasClue(rc[2], rc[1])
           /\ categories[rc[2]].clues[rc[1]].showing = "answer"
           /\ handleClick(rc[1], rc[2]))
          => (categories' = categories /\ tbody' = tbody /\ thead' = thead)]_vars

\* Three clicks were made, every clickable cell has a clue, and the only
\* clue that is not Hidden is in Answer: the third click was on its cell.
C4_Witness ==
    /\ clicks = 3
    /\ renders = 1
    /\ \A rc \in Cells : HasClue(rc[2], rc[1])
    /\ \E c \in 1..Len(categories) : \E k \in 1..Len(categories[c].clues) :
          /\ categories[c].clues[k].showing = "answer"
          /\ \A c2 \in 1..Len(categories) : \A k2 \in 1..Len(categories[c2].clues) :
                <<c2, k2>> # <<c, k>> => categories[c2].clues[k2].showing = "null"

\* C5: a click on the cell in column c, row r whose clue is Hidden shows the
\* clue's question there and makes the clue Question; a click when the clue
\* is Question shows the answer, marks the cell and makes the clue Answer.
C5_ClickReveals ==
    [][clicks' # clicks => \A rc \in Cells :
          (HasClue(rc[2], rc[1]) /\ handleClick(rc[1], rc[2])) =>
             LET r    == rc[1]
                 c    == rc[2]
                 clue == categories[c].clues[r]
             IN  /\ clue.showing = "null" =>
                       /\ tbody'[r][c].text = clue.question
                       /\ categories'[c].clues[r].showing = "question"
                 /\ clue.showing = "question" =>
                       /\ tbody'[r][c].text = clue.answer
                       /\ tbody'[r][c].showingAnswer
                       /\ categories'[c].clues[r].showing = "answer"]_vars

\* a cell shows its clue's answer with the marker
C5_Witness ==
    \E rc \in Cells :
        /\ HasClue(rc[2], rc[1])
        /\ categories[rc[2]].clues[rc[1]].showing = "answer"
        /\ tbody[rc[1]][rc[2]].text = categories[rc[2]].clues[rc[1]].answer
        /\ tbody[rc[1]][rc[2]].showingAnswer

\* C6: a click on the cell in column c, row r leaves every other clue, every
\* other cell, the header, the list of categories and the started flag as
\* they were.
C6_ClickFrame ==
    [][clicks' # clicks => \A rc \in Cells :
          handleClick(rc[1], rc[2]) =>
             /\ Len(categories') = Len(categories)
             /\ \A c2 \in 1..Len(categories) :
                   /\ categories'[c2].id = categories[c2].id
                   /\ categories'[c2].title = categories[c2].title
                   /\ Len(categories'[c2].clues) = Len(categories[c2].clues)
                   /\ \A k2 \in 1..Len(categories[c2].clues) :
                         <<k2, c2>> # rc =>
                            categories'[c2].clues[k2] = categories[c2].clues[k2]
             /\ Len(tbody') = Len(tbody)
             /\ \A r2 \in 1..Len(tbody) :
                   /\ Len(tbody'[r2]) = Len(tbody[r2])
                   /\ \A c2 \in 1..Len(tbody[r2]) :
                         <<r2, c2>> # rc => tbody'[r2][c2] = tbody[r2][c2]
             /\ thead' = thead
             /\ gameStarted' = gameStarted]_vars

\* a cell of a two-category board was revealed and other cells are masked
C6_Witness ==
    /\ Len(categories) >= 2
    /\ \E rc \in Cells :
          /\ HasClue(rc[2], rc[1])
          /\ categories[rc[2]].clues[rc[1]].showing # "null"
          /\ tbody[rc[1]][rc[2]].text # Mask
          /\ \E rc2 \in Cells \ {rc} : tbody[rc2[1]][rc2[2]].text = Mask

-----------------------------------------------------------------------------
(* Properties of setupAndStart and the fetchers *)

\* C2: the board holds at most NUM_CATEGORIES categories.
C2_AtMostSixCategories == Len(categories) <= NUM_CATEGORIES

\* C3: every category of the board has exactly NUM_QUESTIONS_PER_CAT clues.
C3_ExactlyFiveClues ==
    \A c \in 1..Len(categories) :
        Len(categories[c].clues) = NUM_QUESTIONS_PER_CAT

Count(seq, x) == Cardinality({ k \in 1..Len(seq) : seq[k] = x })

NoDuplicates(seq) ==
    \A j, k \in 1..Len(seq) : j # k => seq[j] # seq[k]

\* C7 as claimed: the ids a run got from a successful pool request are
\* exactly NUM_CATEGORIES and pairwise distinct.
C7_SixDistinctIds ==
    \A r \in 1..MaxRuns :
        runs[r].pc = "awaitCat" =>
            Len(runs[r].ids) = NUM_CATEGORIES /\ NoDuplicates(runs[r].ids)

\* C7 as amended: the ids a run got from a pool of n records are
\* min(NUM_CATEGORIES, n) and hold no identifier more often than the pool
\* does; so they are NUM_CATEGORIES distinct ids when the pool holds at
\* least NUM_CATEGORIES records with distinct ids.  An empty pool gives none.
C7_SampleOfPool ==
    /\ getCategoriesIds(<<>>) = { <<>> }
    /\ \A r \in 1..MaxRuns :
          runs[r].pc = "awaitCat" =>
             LET ids  == runs[r].ids
                 pool == runs[r].pool
             IN  /\ Len(ids) = Min(NUM_CATEGORIES, Len(pool))
                 /\ \A k \in 1..Len(ids) : Count(ids, ids[k]) <= Count(pool, ids[k])
                 /\ (Len(pool) >= NUM_CATEGORIES /\ NoDuplicates(pool)) =>
                       (Len(ids) = NUM_CATEGORIES /\ NoDuplicates(ids))

\* six distinct ids were sampled from a pool of more than six records
C7_Witness ==
    /\ runs[1].pc = "awaitCat"
    /\ Len(runs[1].pool) > NUM_CATEGORIES
    /\ Len(runs[1].ids) = NUM_CATEGORIES
    /\ NoDuplicates(runs[1].ids)

\* the elements of ids whose flag in ok is TRUE, in order
RECURSIVE Pick(_, _)
Pick(ids, ok) ==
    IF ids = <<>> \/ ok = <<>> THEN <<>>
    ELSE (IF Head(ok) THEN <<Head(ids)>> ELSE <<>>) \o Pick(Tail(ids), Tail(ok))

FailCount(ok) == Cardinality({ k \in 1..Len(ok) : ~ok[k] })

\* C8: when a run during which no other run was in flight returns, every
\* sampled id was requested, the board holds exactly the categories whose
\* request succeeded, in the order of the sampled ids (as many as sampled
\* ids minus failures), the table has that many columns, and the run is
\* Ready: rendered, spinner hidden.
C8_PartialBoard ==
    [][lastDone' # lastDone =>
          LET rec      == lastDone'.rec
              expected == Pick(rec.ids, rec.ok)
          IN  ~rec.overlapped =>
                 /\ Len(rec.ok) = Len(rec.ids)
                 /\ Len(categories') = Len(rec.ids) - FailCount(rec.ok)
                 /\ Len(categories') = Len(expected)
                 /\ \A c \in 1..Len(expected) : categories'[c].id = expected[c]
                 /\ Len(thead') = 1
                 /\ Len(thead'[1]) = Len(expected)
                 /\ Len(tbody') = NUM_QUESTIONS_PER_CAT
                 /\ \A row \in 1..Len(tbody') : Len(tbody'[row]) = Len(expected)
                 /\ runs'[lastDone'.run].pc = "done"
                 /\ ~spinner']_vars

\* a lone run returned after the first of its two requests failed
C8_Witness ==
    /\ lastDone.run # 0
    /\ ~lastDone.rec.overlapped
    /\ lastDone.rec.ok = <<FALSE, TRUE>>
    /\ Len(categories) = 1
    /\ categories[1].id = lastDone.rec.ids[2]
    /\ Len(thead) = 1 /\ Len(thead[1]) = 1
    /\ ~spinner

\* C9: when the category-list request of a run fails, the run has no ids
\* and sends no category-detail request; in the same step it renders an
\* empty board, hides the spinner and returns.
C9_ListFailureDegrades ==
    [][\A r \in 1..MaxRuns :
          IdsFailure(r) =>
             /\ runs'[r].pc = "done"
             /\ lastDone'.run = r
             /\ lastDone'.rec.ids = <<>>
             /\ lastDone'.rec.i = 0
             /\ categories' = <<>>
             /\ thead' = << <<>> >>
             /\ tbody' = [row \in 1..NUM_QUESTIONS_PER_CAT |-> <<>>]
             /\ ~spinner']_vars

\* a run whose category-list request failed has returned
C9_Witness ==
    /\ lastDone.run # 0
    /\ ~lastDone.rec.listOk
    /\ runs[lastDone.run].pc = "done"
    /\ categories = <<>>
    /\ thead = << <<>> >>
    /\ ~spinner

\* C10: a call of renderCategories, whatever the table held before (an
\* earlier rendering, revealed cells), leaves the table as one call on an
\* empty table does: one header cell per category, the cell ids
\* "catIdx-clueIdx" once each, every cell showing "?".
C10_RenderIdempotent ==
    [][renders' = renders + 1 =>
          LET once == renderCategories(EmptyTable, EmptyTable, categories')
              n    == Len(categories')
          IN  /\ thead' = once.thead
              /\ tbody' = once.tbody
              /\ Len(thead') = 1 /\ Len(thead'[1]) = n
              /\ Len(tbody') = NUM_QUESTIONS_PER_CAT
              /\ \A r \in 1..Len(tbody') :
                    /\ Len(tbody'[r]) = n
                    /\ \A c \in 1..n :
                          /\ tbody'[r][c].id = CellId(c - 1, r - 1)
                          /\ tbody'[r][c].text = Mask
                          /\ ~tbody'[r][c].showingAnswer]_vars

\* A board of two categories was rendered twice; a clue is revealed, so a
\* cell was clicked between the two calls, and every cell shows "?" again.
C10_Witness ==
    /\ renders = 2
    /\ Len(categories) = 2
    /\ \E c \in 1..Len(categories) : \E k \in 1..Len(categories[c].clues) :
          categories[c].clues[k].showing # "null"
    /\ Len(tbody) = NUM_QUESTIONS_PER_CAT
    /\ \A rc \in Cells : tbody[rc[1]][rc[2]].text = Mask

-----------------------------------------------------------------------------
(* Properties of runs that overlap *)

\* the runs that pushed a category onto the board as it is now
Appenders == { fetchedBy[k] : k \in 1..Len(fetchedBy) }

\* C11: no two runs in flight have both appended to the board as it is now.
C11_SingleWriter ==
    \A r, q \in Appenders : (InFlight(r) /\ InFlight(q)) => r = q

\* C12: when a run calls renderCategories and returns, every category of
\* the board it renders was fetched by that run.
C12_RendersOwnBoard ==
    [][lastDone' # lastDone =>
          \A k \in 1..Len(fetchedBy') : fetchedBy'[k] = lastDone'.run]_vars

\* the requests of a run that were sent and are not yet answered: the
\* category-list request while the run waits at line 157, and the
\* category-detail requests sent (i) less those answered (ok)
Outstanding(rec) ==
    (IF rec.pc = "awaitIds" THEN 1 ELSE 0) + (rec.i - Len(rec.ok))

\* C13: a run sends no category-detail request before its category-list
\* request was answered, sends the request for the next id only when the
\* one before was answered, and so never has two requests outstanding; a
\* run waits for exactly one request, and every request it sent was
\* answered when it returns.
C13_OneRequestAtATime ==
    /\ \A r \in 1..MaxRuns :
          LET rec == runs[r]
          IN  /\ Outstanding(rec) <= 1
              /\ InFlight(r) => Outstanding(rec) = 1
              /\ rec.pc = "awaitIds" => (rec.i = 0 /\ rec.ok = <<>>)
              /\ rec.pc = "awaitCat" =>
                    /\ rec.listOk
                    /\ rec.i \in 1..Len(rec.ids)
                    /\ Len(rec.ok) = rec.i - 1
    /\ lastDone.rec.i = Len(lastDone.rec.ok)
    /\ ~lastDone.rec.listOk => lastDone.rec.i = 0

\* a run waits for its second category-detail request; the first was answered
C13_Witness ==
    \E r \in 1..MaxRuns :
        /\ runs[r].pc = "awaitCat"
        /\ runs[r].i = 2
        /\ Len(runs[r].ok) = 1

\* C14: the spinner is shown whenever a run is still fetching; it is hidden
\* only when no run is in flight.
C14_SpinnerWhileLoading ==
    (\E r \in 1..MaxRuns : InFlight(r)) => spinner

\* C15: nothing cancels a run.  A click on #start while a run is in flight
\* leaves that run waiting for the same request, and a run in flight stops
\* being in flight only by rendering and returning.
C15_NoCancellation ==
    [][\A r \in 1..MaxRuns :
          InFlight(r) =>
             /\ (\E q \in 1..MaxRuns : Trigger(q)) =>
                   /\ runs'[r].pc = runs[r].pc
                   /\ runs'[r].ids = runs[r].ids
                   /\ runs'[r].i = runs[r].i
             /\ ~InFlight(r)' =>
                   /\ runs'[r].pc = "done"
                   /\ lastDone'.run = r
                   /\ renders' = renders + 1
                   /\ thead' = renderCategories(thead, tbody, categories').thead
                   /\ tbody' = renderCategories(thead, tbody, categories').tbody]_vars

\* Two runs overlapped, both have rendered and returned, and the one that
\* rendered last is the first: not the run of the last click on #start.
C15_Witness ==
    /\ \A r \in 1..MaxRuns : runs[r].pc = "done"
    /\ lastDone.run = 1
    /\ lastDone.rec.overlapped
    /\ renders = MaxRuns

-----------------------------------------------------------------------------
(* Properties of the end of a run *)

\* C16: when every request is answered in the end, every run that was
\* triggered eventually returns with the board rendered, the spinner hidden
\* and the flag flipped (all done in the step that makes it "done").
C16_EveryRunReady ==
    \A r \in 1..MaxRuns : InFlight(r) ~> (runs[r].pc = "done")

\* C17: the step in which a run returns flips gameStarted once and leaves
\* the button reading "Restart" when the flag is now true and "Start" when
\* it is false, also for a run whose requests failed; no other step changes
\* the flag or the button.
C17_FlagFlipsPerRun ==
    [][IF lastDone' # lastDone
       THEN /\ gameStarted' = ~gameStarted
            /\ startText' = (IF gameStarted' THEN "Restart" ELSE "Start")
       ELSE /\ gameStarted' = gameStarted
            /\ startText' = startText]_vars

\* a second run has returned, after its category-list request failed: the
\* flag is false again and the button reads "Start"
C17_Witness ==
    /\ \A r \in 1..2 : runs[r].pc = "done"
    /\ lastDone.run # 0
    /\ ~lastDone.rec.listOk
    /\ ~gameStarted
    /\ startText = "Start"

\* C20: once a run has returned, the flag is true and the button reads
\* "Restart".
C20_RestartAfterFirstRun ==
    lastDone.run # 0 => (gameStarted /\ startText = "Restart")

-----------------------------------------------------------------------------
(* Properties that relate the table to the board *)

\* the category and clue indices a click on the cell at row r, column c
\* resolves to
CellCat(r, c) == SplitId(tbody[r][c].id)[1]

CellClue(r, c) == SplitId(tbody[r][c].id)[2]

\* C18: every cell of the table resolves to a category of the board and a
\* clue of that category.
C18_CellsResolve ==
    \A rc \in Cells : ClueExists(CellCat(rc[1], rc[2]), CellClue(rc[1], rc[2]))

\* C19: every cell whose clue exists shows "?" exactly when the clue is
\* Hidden, the question exactly when it is Question and the answer exactly
\* when it is Answer.
C19_GridAgreesWithBoard ==
    \A rc \in Cells :
        ClueExists(CellCat(rc[1], rc[2]), CellClue(rc[1], rc[2])) =>
           LET clue == categories[CellCat(rc[1], rc[2]) + 1]
                          .clues[CellClue(rc[1], rc[2]) + 1]
               text == tbody[rc[1]][rc[2]].text
           IN  /\ text = Mask <=> clue.showing = "null"
               /\ text = clue.question <=> clue.showing = "question"
               /\ text = clue.answer <=> clue.showing = "answer"

=============================================================================
